---- MODULE Spec2Model ----
(***************************************************************************)
(* Model of the outreach e-mail generator's core:                          *)
(*   - parse_email_response          (src/utils/prompt_builder.py)         *)
(*   - extract_resources_from_grounding (src/app.py)                       *)
(*   - the request log               (src/utils/logger.py)                 *)
(*                                                                         *)
(* Text is a sequence of tokens.  The literals the parser looks for are    *)
(* single tokens: "E" is `---EMAIL`, "S" is `SUBJECT:`, "s" is `Subject:`, *)
(* "n" is a newline, "_" is a blank; "a" and "b" are ordinary characters.  *)
(***************************************************************************)
EXTENDS Integers, Sequences, FiniteSets, TLC

VARIABLES pc, blocks, response_text, parsed, grounding_metadata, extracted,
          store, lastOp, session, flow, procs, acked

vars == <<pc, blocks, response_text, parsed, grounding_metadata, extracted,
          store, lastOp, session, flow, procs, acked>>

\* ---------------------------------------------------------------- bounds
MaxBlocks == 4
MaxChunks == 2
MaxQueries == 1
MaxLines == 3
MaxFeedback == 2
MaxAppends == 2

\* ------------------------------------------------------ string primitives
Whitespace == {"_", "n"}

MinOf(S) == CHOOSE x \in S : \A y \in S : x <= y
MaxOf(S) == CHOOSE x \in S : \A y \in S : x >= y

\* str.strip(): drop leading and trailing whitespace
Strip(s) ==
  LET keep == {i \in 1..Len(s) : s[i] \notin Whitespace}
  IN  IF keep = {} THEN <<>> ELSE SubSeq(s, MinOf(keep), MaxOf(keep))

\* str.split(sep): all the pieces between occurrences of sep
RECURSIVE Split(_, _)
Split(s, sep) ==
  LET hits == {i \in 1..Len(s) : s[i] = sep}
  IN  IF hits = {} THEN <<s>>
      ELSE LET i == MinOf(hits)
           IN  <<SubSeq(s, 1, i - 1)>> \o Split(SubSeq(s, i + 1, Len(s)), sep)

\* str.split('\n', 1): at most one split, at the first newline
SplitLine1(s) ==
  LET hits == {i \in 1..Len(s) : s[i] = "n"}
  IN  IF hits = {} THEN <<s>>
      ELSE LET i == MinOf(hits)
           IN  <<SubSeq(s, 1, i - 1), SubSeq(s, i + 1, Len(s))>>

\* str.startswith(marker)
StartsWith(s, marker) == s # <<>> /\ s[1] = marker

\* str.replace(marker, ''): every occurrence of marker is removed
Replace(s, marker) == SelectSeq(s, LAMBDA c : c # marker)

Count(s, tok) == Cardinality({i \in 1..Len(s) : s[i] = tok})

\* ------------------------------------------------- parse_email_response
MaxEmails == 3

Email(subject, body) == [kind |-> "email", subject |-> subject, body |-> body]
Skipped == [kind |-> "skip", subject |-> <<>>, body |-> <<>>]
IndexError == [kind |-> "raise", subject |-> <<>>, body |-> <<>>]

\* the guard dropped: every section goes on to lines[1]
SectionNeverTooShort(lines) == FALSE

\* the guard `if len(lines) < 2: continue`
SectionTooShort(lines) == Len(lines) < 2

\* the subject of a content that starts with SUBJECT:
SubjectOf(line) == Strip(Replace(line, "S"))

\* the body of one iteration of the primary loop
ParseSection(section) ==
  LET lines == SplitLine1(Strip(section))
  IN  IF SectionTooShort(lines) THEN Skipped
      ELSE IF Len(lines) < 2 THEN IndexError      \* lines[1] out of range
      ELSE LET content == Strip(lines[2])
           IN  IF StartsWith(content, "S")
               THEN LET parts == SplitLine1(content)
                    IN  Email(SubjectOf(parts[1]),
                              IF Len(parts) > 1 THEN Strip(parts[2]) ELSE <<>>)
               ELSE Email(<<>>, content)

\* the first line taken without trimming the piece first
FallbackFirstLineUntrimmed(part) == SplitLine1(part)

\* the body of one iteration of the fallback loop
FallbackFirstLine(part) == SplitLine1(Strip(part))

ParseFallbackPart(part) ==
  LET lines == FallbackFirstLine(part)
  IN  Email(Strip(lines[1]), IF Len(lines) > 1 THEN Strip(lines[2]) ELSE <<>>)

IsEmail(r) == r.kind = "email"

PrimaryResults(text) ==
  LET sections == Tail(Split(text, "E"))
  IN  [i \in 1..Len(sections) |-> ParseSection(sections[i])]
PrimaryEmails(text) == SelectSeq(PrimaryResults(text), IsEmail)
FallbackEmails(text) ==
  LET parts == Tail(Split(text, "s"))
  IN  [i \in 1..Len(parts) |-> ParseFallbackPart(parts[i])]

\* the fallback records appended whether or not the primary loop found any
EmailsFoundMerged(text) == PrimaryEmails(text) \o FallbackEmails(text)

\* `if not emails:` chooses the fallback
EmailsFound(text) ==
  IF PrimaryEmails(text) # <<>> THEN PrimaryEmails(text) ELSE FallbackEmails(text)

\* emails[-3:] instead of emails[:3]
TruncateLast(es) == SubSeq(es, IF Len(es) < MaxEmails THEN 1 ELSE Len(es) - MaxEmails + 1, Len(es))

\* emails[:3]
Truncate(es) == SubSeq(es, 1, IF Len(es) < MaxEmails THEN Len(es) ELSE MaxEmails)

Plain(r) == [subject |-> r.subject, body |-> r.body]

Plains(es) == [i \in 1..Len(es) |-> Plain(es[i])]

parse_email_response(text) ==
  LET results == PrimaryResults(text)
  IN  IF \E i \in 1..Len(results) : results[i].kind = "raise"
      THEN [raised |-> TRUE, emails |-> <<>>]
      ELSE [raised |-> FALSE, emails |-> Plains(Truncate(EmailsFound(text)))]

\* ------------------------------------------------------- parser inputs
\* A well-formed block: `---EMAIL<hdr>` line, `SUBJECT:<subj>` line, body.
Block(hdr, subj, body) == [kind |-> "block", hdr |-> hdr, subj |-> subj, body |-> body]
RawText(toks) == [kind |-> "raw", hdr |-> <<>>, subj |-> <<>>, body |-> toks]

Render(p) ==
  IF p.kind = "block"
  THEN <<"E">> \o p.hdr \o <<"n", "S">> \o p.subj \o <<"n">> \o p.body
  ELSE p.body

RECURSIVE Concat(_)
Concat(ps) == IF ps = <<>> THEN <<>> ELSE Render(Head(ps)) \o Concat(Tail(ps))

Pieces ==
  { Block(<<"_", "a">>, <<"_", "a">>, <<"b", "n">>),
    Block(<<"_", "b">>, <<"_", "b", "_">>, <<"n", "a", "n", "_", "b", "n", "n">>),
    Block(<<"_", "a">>, <<"_", "a", "S", "b">>, <<"b", "n">>),
    Block(<<"_", "a">>, <<>>, <<>>),
    RawText(<<"s", "_", "a", "n", "b", "n">>),
    RawText(<<"s", "n", "a", "n", "b", "n">>),
    RawText(<<"E">>),
    RawText(<<"a", "n">>),
    RawText(<<"E", "_", "a", "n", "b", "n">>) }

BlockSeqs == UNION {[1..n -> Pieces] : n \in 0..MaxBlocks}

\* ------------------------------------- extract_resources_from_grounding
\* Python values are tagged: None, a missing attribute, a string (a token
\* sequence), a list, an object, a truthy value that cannot be iterated (a
\* collection of the wrong type), a truthy value that cannot be hashed (a
\* url of the wrong type).
None == [k |-> "none"]
Absent == [k |-> "absent"]
NotIterable == [k |-> "not_iterable"]
Unhashable == [k |-> "unhashable"]
Str(toks) == [k |-> "str", v |-> toks]
List(elems) == [k |-> "list", v |-> elems]

Truthy(v) ==
  /\ v.k \notin {"none", "absent"}
  /\ v.k \in {"str", "list"} => v.v # <<>>

\* hasattr(obj, name)
HasAttr(v) == v.k # "absent"

\* Python `a or b`
Or(a, b) == IF Truthy(a) THEN a ELSE b

\* getattr(obj, name, None)
GetAttr(v) == IF HasAttr(v) THEN v ELSE None

Resource(url, title) == [url |-> url, title |-> Or(title, url)]

\* lines 25-30: one iteration of `for chunk in chunks`
ChunkResources(chunk) ==
  IF ~(HasAttr(chunk.web) /\ Truthy(chunk.web)) THEN <<>>
  ELSE LET url == Or(GetAttr(chunk.web.uri), GetAttr(chunk.web.url))
           title == GetAttr(chunk.web.title)
       IN  IF Truthy(url) THEN <<Resource(url, title)>> ELSE <<>>

\* lines 24-30: `for chunk in chunks`
RECURSIVE ChunksResources(_)
ChunksResources(chunks) ==
  IF chunks = <<>> THEN <<>>
  ELSE ChunkResources(Head(chunks)) \o ChunksResources(Tail(chunks))

\* lines 38-41: one iteration of `for result in query.results`
ResultResources(result) ==
  LET url == Or(GetAttr(result.url), GetAttr(result.uri))
      title == Or(GetAttr(result.title), GetAttr(result.name))
  IN  IF Truthy(url) THEN <<Resource(url, title)>> ELSE <<>>

\* lines 37-41: `for result in query.results`
RECURSIVE ResultsResources(_)
ResultsResources(results) ==
  IF results = <<>> THEN <<>>
  ELSE ResultResources(Head(results)) \o ResultsResources(Tail(results))

Running(resources) == [raised |-> FALSE, resources |-> resources]
TypeError(resources) == [raised |-> TRUE, resources |-> resources]

\* lines 21-30: the structured-chunk strategy
ChunkStage(md) ==
  IF ~(HasAttr(md.chunks) /\ Truthy(md.chunks)) THEN Running(<<>>)
  ELSE IF md.chunks.k # "list" THEN TypeError(<<>>)
  ELSE Running(ChunksResources(md.chunks.v))

\* lines 35-41: `for query in queries`, which fails at the first query
\* whose truthy `results` cannot be iterated
RECURSIVE QueryLoop(_, _)
QueryLoop(queries, resources) ==
  IF queries = <<>> THEN Running(resources)
  ELSE LET query == Head(queries)
       IN  IF ~(HasAttr(query.results) /\ Truthy(query.results))
           THEN QueryLoop(Tail(queries), resources)
           ELSE IF query.results.k # "list" THEN TypeError(resources)
           ELSE QueryLoop(Tail(queries),
                          resources \o ResultsResources(query.results.v))

\* lines 32-41: the query-result strategy
QueryStage(md, resources) ==
  IF ~(HasAttr(md.queries) /\ Truthy(md.queries)) THEN Running(resources)
  ELSE IF md.queries.k # "list" THEN TypeError(resources)
  ELSE QueryLoop(md.queries.v, resources)

Punctuation == {".", ",", ";", ":", "!", "?", ")"}

\* url.rstrip('.,;:!?)')
RStripPunct(url) ==
  LET keep == {i \in 1..Len(url) : url[i] \notin Punctuation}
  IN  IF keep = {} THEN <<>> ELSE SubSeq(url, 1, MaxOf(keep))

Urls(resources) == {resources[i].url : i \in 1..Len(resources)}

\* lines 49-52: `for url in found_urls`
RECURSIVE FoundLoop(_, _)
FoundLoop(found_urls, resources) ==
  IF found_urls = <<>> THEN resources
  ELSE LET url == Str(RStripPunct(Head(found_urls)))
       IN  FoundLoop(Tail(found_urls),
                     IF Truthy(url) /\ url \notin Urls(resources)
                     THEN Append(resources, Resource(url, url))
                     ELSE resources)

\* lines 43-54: the textual fallback, inside its own try/except
TextStage(md, resources) ==
  IF resources # <<>> THEN resources
  ELSE IF md.str.k # "list" THEN resources        \* str() raised: `pass`
  ELSE FoundLoop(md.str.v, resources)

\* lines 56-62: deduplication; hashing a url of the wrong type raises
RECURSIVE DedupLoop(_, _, _)
DedupLoop(resources, seen_urls, unique_resources) ==
  IF resources = <<>> THEN [raised |-> FALSE, value |-> unique_resources]
  ELSE LET url == Head(resources).url
       IN  IF ~Truthy(url)
           THEN DedupLoop(Tail(resources), seen_urls, unique_resources)
           ELSE IF url.k = "unhashable"
           THEN [raised |-> TRUE, value |-> unique_resources]
           ELSE IF url \in seen_urls
           THEN DedupLoop(Tail(resources), seen_urls, unique_resources)
           ELSE DedupLoop(Tail(resources), seen_urls \cup {url},
                          Append(unique_resources, Head(resources)))

\* lines 20-64: the body of the try block; `resources` is the list
\* accumulated when the body returned or raised
TryBody(md) ==
  LET chunked == ChunkStage(md)
  IN  IF chunked.raised
      THEN [raised |-> TRUE, resources |-> chunked.resources, value |-> <<>>]
      ELSE LET queried == QueryStage(md, chunked.resources)
           IN  IF queried.raised
               THEN [raised |-> TRUE, resources |-> queried.resources, value |-> <<>>]
               ELSE LET resources == TextStage(md, queried.resources)
                        unique == DedupLoop(resources, {}, <<>>)
                    IN  [raised |-> unique.raised, resources |-> resources,
                         value |-> unique.value]

Returned(value) == [raised |-> FALSE, value |-> value]
Propagated == [raised |-> TRUE, value |-> <<>>]

\* the handler re-raising instead of returning
ExceptHandlerReraise(resources) == Propagated

\* lines 66-67: `except Exception: return resources`
ExceptHandler(resources) == Returned(resources)

extract_resources_from_grounding(md) ==
  IF ~Truthy(md) THEN Returned(<<>>)
  ELSE LET body == TryBody(md)
       IN  IF body.raised THEN ExceptHandler(body.resources)
           ELSE Returned(body.value)

\* ---------------------------------------------------- extractor inputs
U1 == Str(<<"u1">>)
U2 == Str(<<"u2">>)
T1 == Str(<<"t1">>)
T2 == Str(<<"t2">>)

Web(uri, url, title) ==
  [web |-> [k |-> "obj", uri |-> uri, url |-> url, title |-> title]]

ChunkElems ==
  { [web |-> Absent],
    [web |-> None],
    Web(U1, Absent, T1),
    Web(U1, U2, T2),
    Web(None, U2, None),
    Web(Unhashable, Absent, Absent) }

Result(url, uri, title, name) ==
  [url |-> url, uri |-> uri, title |-> title, name |-> name]

R1 == Result(U1, Absent, T2, Absent)
R2 == Result(None, U2, None, T1)
RJunk == Result(Absent, Absent, Absent, Absent)

QueryElems ==
  { [results |-> Absent], [results |-> None], [results |-> NotIterable] }
  \cup { [results |-> List(rs)] : rs \in {<<R1>>, <<R2, R2>>, <<RJunk, R1, R2>>} }

\* what the URL pattern finds in str(metadata), or the failure of str()
StrForms ==
  { NotIterable, List(<<>>), List(<< <<"u1", ".">> >>),
    List(<< <<"u1">>, <<"u2", ",", ".">>, <<"u1", ".">> >>) }

SeqsUpTo(S, n) == UNION {[1..k -> S] : k \in 0..n}

Lists(S, n) == {List(s) : s \in SeqsUpTo(S, n)}

Metadatas ==
  {None} \cup
  [ k : {"obj"},
    chunks : {Absent, None, NotIterable} \cup Lists(ChunkElems, MaxChunks),
    queries : {Absent, None, NotIterable} \cup Lists(QueryElems, MaxQueries),
    str : StrForms ]

\* ------------------------------------------------------- request log
\* The store is the file outreach_log.jsonl: absent, or a sequence of
\* newline-terminated lines.  A line is the JSON text of an entry, a text
\* json.loads rejects, or a blank line.
Slots == 3
Unset == "None"

Feedback(sent, stamped) == [emails_actually_sent |-> sent, stamped |-> stamped]

\* lines 29-50: the entry log_request builds
NewEntry(id, payload) ==
  [id |-> id, payload |-> payload,
   feedback |-> Feedback([i \in 1..Slots |-> Unset], [i \in 1..Slots |-> FALSE])]

NoEntry == NewEntry(0, "")

\* json.dumps(entry): one line of JSON text
Dumps(entry) == [kind |-> "json", val |-> entry]
CorruptLine == [kind |-> "corrupt", val |-> NoEntry]
BlankLine == [kind |-> "blank", val |-> NoEntry]

\* json.loads(line): the entry, or JSONDecodeError
Loads(line) ==
  IF line.kind = "json" THEN [ok |-> TRUE, val |-> line.val]
  ELSE [ok |-> FALSE, val |-> NoEntry]

NoFile == [exists |-> FALSE, lines |-> <<>>]
File(lines) == [exists |-> TRUE, lines |-> lines]

\* strftime("%Y%m%d_%H%M%S_%f") of a clock reading in microseconds: one
\* identifier per reading
FormatId(t) == t

\* the read without its `except json.JSONDecodeError`
LineEntriesUncaught(line) ==
  IF line.kind = "blank" THEN [raised |-> FALSE, entries |-> <<>>]
  ELSE LET loaded == Loads(line)
       IN  IF loaded.ok THEN [raised |-> FALSE, entries |-> <<loaded.val>>]
           ELSE [raised |-> TRUE, entries |-> <<>>]

\* lines 91-96: one iteration of `for line in f`
LineEntries(line) ==
  IF line.kind = "blank" THEN [raised |-> FALSE, entries |-> <<>>]
  ELSE LET loaded == Loads(line)
       IN  IF loaded.ok THEN [raised |-> FALSE, entries |-> <<loaded.val>>]
           ELSE [raised |-> FALSE, entries |-> <<>>]   \* except: continue

RECURSIVE ReadLines(_)
ReadLines(lines) ==
  IF lines = <<>> THEN [raised |-> FALSE, entries |-> <<>>]
  ELSE LET first == LineEntries(Head(lines))
           rest == ReadLines(Tail(lines))
       IN  IF first.raised THEN [raised |-> TRUE, entries |-> <<>>]
           ELSE [raised |-> rest.raised,
                 entries |-> IF rest.raised THEN <<>>
                             ELSE first.entries \o rest.entries]

\* lines 84-97
_read_all_entries(st) ==
  IF ~st.exists THEN [raised |-> FALSE, entries |-> <<>>]
  ELSE ReadLines(st.lines)

\* lines 100-104
_write_all_entries(entries) ==
  File([i \in 1..Len(entries) |-> Dumps(entries[i])])

\* lines 52-53: open(LOG_FILE, "a") and write one line
AppendLine(st, line) == File(st.lines \o <<line>>)

\* lines 65-70: the index of the first entry with the id, 0 if none
FirstMatch(entries, entry_id) ==
  LET hits == {i \in 1..Len(entries) : entries[i].id = entry_id}
  IN  IF hits = {} THEN 0 ELSE MinOf(hits)

\* lines 67-68: the update of the matching entry
SetFeedback(entry, email_index, actual_email_sent) ==
  [entry EXCEPT
     !.feedback.emails_actually_sent[email_index + 1] = actual_email_sent,
     !.feedback.stamped[email_index + 1] = TRUE]

\* the rewrite done whether or not an entry matched
AlwaysWrite(updated) == TRUE

\* line 72: `if updated:`
ShouldWrite(updated) == updated

\* a Python slice start, normalised against the length n
SliceStart(i, n) ==
  IF i < 0 THEN (IF i + n < 0 THEN 0 ELSE i + n) ELSE (IF i > n THEN n ELSE i)

\* entries[-limit:]
RecentSlice(entries, limit) ==
  SubSeq(entries, SliceStart(0 - limit, Len(entries)) + 1, Len(entries))

Idle ==
  [op |-> "none", id |-> 0, email_index |-> 0, text |-> "", limit |-> 0,
   raised |-> FALSE, updated |-> FALSE, wrote |-> FALSE, entries |-> <<>>]

Payloads == {"p1"}
Texts == {"Hi there"}
\* readings of the clock; two calls may observe the same one
Clock == {1, 2}
Limits == 0..(MaxLines + 1)

SeedLines == {CorruptLine, BlankLine, Dumps(NewEntry(FormatId(1), "p1"))}

\* the number of feedback slots written in the store
RECURSIVE Stamped(_)
Stamped(entries) ==
  IF entries = <<>> THEN 0
  ELSE Cardinality({k \in 1..Slots : Head(entries).feedback.stamped[k]})
       + Stamped(Tail(entries))

Stores == {NoFile} \cup {File(ls) : ls \in SeqsUpTo(SeedLines, MaxLines - 1)}

\* ------------------------------------------------- the generate flow
\* app.py lines 233-295.  A request is the four prospect fields; the
\* environment says what each collaborator does when it is called.
FieldTruthy(text) == text # ""

\* the validation with the source check dropped
RequestValidNameOnly(req) == FieldTruthy(req.person_name)

\* lines 234-237: `not person_name`, `not any([...])`
RequestValid(req) ==
  /\ FieldTruthy(req.person_name)
  /\ \/ FieldTruthy(req.linkedin_url)
     \/ FieldTruthy(req.company_website)
     \/ FieldTruthy(req.x_profile_url)

\* the parameters build_prompt declares
BuildPromptParams ==
  {"person_name", "linkedin_url", "company_name", "x_profile_url", "config"}

\* the keyword arguments the handler passes to build_prompt
BuildPromptCall ==
  {"person_name", "linkedin_url", "company_name", "x_profile_url", "config",
   "word_limit", "past_conversation", "custom_instructions"}

\* a call binds when every keyword is a declared parameter and every
\* parameter (none has a default) is given; otherwise TypeError
CallBinds(params, keywords) == keywords \subseteq params /\ params \subseteq keywords

NoSession ==
  [set |-> FALSE, emails |-> <<>>, resources |-> <<>>,
   token_usage |-> <<0, 0, 0>>, log_entry_id |-> 0]

\* lines 285-289
SessionOf(emails, token_usage, resources, entry_id) ==
  [set |-> TRUE, emails |-> emails, resources |-> resources,
   token_usage |-> token_usage, log_entry_id |-> entry_id]

Ran(calls, message, st, sess) ==
  [calls |-> calls, message |-> message, store |-> st, session |-> sess]

\* lines 293-295: st.error(str(e)) and the API-key hint, whatever failed
ErrorBranch(calls, st, sess) == Ran(calls, "error_check_api_key", st, sess)

\* lines 239-291: the try block, call by call; t is the clock reading
TryGenerate(req, env, t, st, sess) ==
  LET c1 == <<"load_config">>
      c2 == Append(c1, "build_prompt")
      c3 == Append(c2, "GeminiClient")
      c4 == Append(c3, "generate_emails")
      c5 == Append(c4, "parse_email_response")
      c6 == Append(c5, "extract_resources_from_grounding")
      c7 == Append(c6, "log_request")
      emails == parse_email_response(env.text)
      resources == extract_resources_from_grounding(env.metadata)
  IN  IF ~env.config_ok THEN ErrorBranch(c1, st, sess)
      ELSE IF ~CallBinds(BuildPromptParams, BuildPromptCall)
      THEN ErrorBranch(c2, st, sess)
      ELSE IF ~env.api_key THEN ErrorBranch(c3, st, sess)
      ELSE IF ~env.gateway_ok THEN ErrorBranch(c4, st, sess)
      ELSE IF emails.raised THEN ErrorBranch(c5, st, sess)
      ELSE IF resources.raised THEN ErrorBranch(c6, st, sess)
      ELSE IF ~env.log_ok THEN ErrorBranch(c7, st, sess)
      ELSE Ran(c7, "success",
               AppendLine(st, Dumps(NewEntry(FormatId(t), "p1"))),
               SessionOf(emails.emails, env.tokens, resources.value, FormatId(t)))

\* lines 233-295: the handler of the Generate button
RunGenerate(req, env, t, st, sess) ==
  IF ~RequestValid(req)
  THEN Ran(<<>>,
           IF ~FieldTruthy(req.person_name) THEN "name_missing"
           ELSE "source_missing", st, sess)
  ELSE TryGenerate(req, env, t, st, sess)

Fields == {"", "x"}

Requests ==
  [person_name : Fields, linkedin_url : Fields,
   company_website : Fields, x_profile_url : Fields]

ResponseTexts ==
  { Concat(<<Block(<<"_", "a">>, <<"_", "a">>, <<"b", "n">>)>>),
    <<"a", "n">> }

Envs ==
  [config_ok : BOOLEAN, api_key : BOOLEAN, gateway_ok : BOOLEAN,
   log_ok : BOOLEAN, text : ResponseTexts, tokens : {<<1, 2, 3>>},
   metadata : {[k |-> "obj", chunks |-> List(<<Web(U1, Absent, T1)>>),
                queries |-> Absent, str |-> List(<<>>)]}]

NoFlow ==
  [ran |-> FALSE, req |-> [person_name |-> "", linkedin_url |-> "",
                           company_website |-> "", x_profile_url |-> ""],
   env |-> [config_ok |-> FALSE, api_key |-> FALSE, gateway_ok |-> FALSE,
            log_ok |-> FALSE, text |-> <<>>, tokens |-> <<0, 0, 0>>,
            metadata |-> None],
   calls |-> <<>>, message |-> ""]

\* ------------------------------------------------ concurrent log access
Procs == {1, 2}

IdleProc ==
  [pc |-> "idle", id |-> 0, email_index |-> 0, entries |-> <<>>,
   updated |-> FALSE, missed_appends |-> 0, missed_feedback |-> {}]

NoAcks == [initial |-> 0, requests |-> 0, started |-> 0, feedback |-> {}]

\* lines 63-70 for one caller: the list it read, changed in memory
Snapshot(st, entry_id, email_index, actual_email_sent) ==
  LET read == _read_all_entries(st)
      i == FirstMatch(read.entries, entry_id)
      updated == ~read.raised /\ i # 0
  IN  [raised |-> read.raised, updated |-> updated,
       entries |-> IF updated
                   THEN [read.entries EXCEPT
                           ![i] = SetFeedback(@, email_index, actual_email_sent)]
                   ELSE read.entries]

\* a rewrite that reads the store again under a lock and redoes the change
FreshEntries(proc, st) == Snapshot(st, proc.id, proc.email_index, "Hi there").entries

\* line 73: the rewrite is given the list read at line 63
StaleEntries(proc, st) == proc.entries

\* ------------------------------------------------------------- parser
NoResult == [raised |-> FALSE, emails |-> <<>>]
NoResources == [raised |-> FALSE, value |-> <<>>]

appVars == <<session, flow, procs, acked>>

InitApp ==
  /\ session = NoSession
  /\ flow = NoFlow
  /\ procs = [p \in Procs |-> IdleProc]
  /\ acked = NoAcks

InitParse ==
  /\ pc = "input"
  /\ blocks \in BlockSeqs
  /\ response_text = Concat(blocks)
  /\ parsed = NoResult
  /\ grounding_metadata = None
  /\ extracted = NoResources
  /\ store = NoFile
  /\ lastOp = Idle
  /\ InitApp

Parse ==
  /\ pc = "input"
  /\ pc' = "done"
  /\ parsed' = parse_email_response(response_text)
  /\ UNCHANGED <<blocks, response_text, grounding_metadata, extracted, store, lastOp>>
  /\ UNCHANGED appVars

NextParse == Parse

SpecParse == InitParse /\ [][NextParse]_vars

\* ---------------------------------------------------------- extractor
InitExtract ==
  /\ pc = "input"
  /\ grounding_metadata \in Metadatas
  /\ extracted = NoResources
  /\ blocks = <<>>
  /\ response_text = <<>>
  /\ parsed = NoResult
  /\ store = NoFile
  /\ lastOp = Idle
  /\ InitApp

Extract ==
  /\ pc = "input"
  /\ pc' = "done"
  /\ extracted' = extract_resources_from_grounding(grounding_metadata)
  /\ UNCHANGED <<blocks, response_text, parsed, grounding_metadata, store, lastOp>>
  /\ UNCHANGED appVars

NextExtract == Extract

SpecExtract == InitExtract /\ [][NextExtract]_vars

\* -------------------------------------------------------- request log
idleVars == <<pc, blocks, response_text, parsed, grounding_metadata, extracted,
              session, flow, procs, acked>>

InitLog ==
  /\ pc = "log"
  /\ store \in Stores
  /\ lastOp = Idle
  /\ blocks = <<>>
  /\ response_text = <<>>
  /\ parsed = NoResult
  /\ grounding_metadata = None
  /\ extracted = NoResources
  /\ InitApp

\* log_request, with t the reading of the clock
log_request(payload, t) ==
  /\ Len(store.lines) < MaxLines
  /\ store' = AppendLine(store, Dumps(NewEntry(FormatId(t), payload)))
  /\ lastOp' = [Idle EXCEPT !.op = "log_request", !.id = FormatId(t),
                            !.wrote = TRUE]
  /\ UNCHANGED idleVars

log_feedback(entry_id, email_index, actual_email_sent) ==
  LET read == _read_all_entries(store)
      i == FirstMatch(read.entries, entry_id)
      updated == ~read.raised /\ i # 0
      entries == IF updated
                 THEN [read.entries EXCEPT
                         ![i] = SetFeedback(@, email_index, actual_email_sent)]
                 ELSE read.entries
      wrote == ~read.raised /\ ShouldWrite(updated)
  IN  /\ Stamped(read.entries) < MaxFeedback
      /\ store' = IF wrote THEN _write_all_entries(entries) ELSE store
      /\ lastOp' = [Idle EXCEPT !.op = "log_feedback", !.id = entry_id,
                                !.email_index = email_index,
                                !.text = actual_email_sent,
                                !.raised = read.raised,
                                !.updated = updated, !.wrote = wrote]
      /\ UNCHANGED idleVars

get_recent_entries(limit) ==
  LET read == _read_all_entries(store)
  IN  /\ lastOp' = [Idle EXCEPT !.op = "get_recent_entries", !.limit = limit,
                                !.raised = read.raised,
                                !.entries = IF read.raised THEN <<>>
                                            ELSE RecentSlice(read.entries, limit)]
      /\ UNCHANGED store
      /\ UNCHANGED idleVars

NextLog ==
  \/ \E payload \in Payloads, t \in Clock : log_request(payload, t)
  \/ \E entry_id \in Clock, email_index \in 0..(Slots - 1), text \in Texts :
        log_feedback(entry_id, email_index, text)
  \/ \E limit \in Limits : get_recent_entries(limit)

SpecLog == InitLog /\ [][NextLog]_vars

\* -------------------------------------------------------- generate flow
InitGenerate ==
  /\ pc = "app"
  /\ store \in {NoFile, File(<<>>), File(<<Dumps(NewEntry(FormatId(1), "p1"))>>)}
  /\ session = NoSession
  /\ flow = NoFlow
  /\ procs = [p \in Procs |-> IdleProc]
  /\ acked = NoAcks
  /\ lastOp = Idle
  /\ blocks = <<>>
  /\ response_text = <<>>
  /\ parsed = NoResult
  /\ grounding_metadata = None
  /\ extracted = NoResources

\* one click on Generate
Generate(req, env, t) ==
  LET ran == RunGenerate(req, env, t, store, session)
  IN  /\ Len(store.lines) < MaxLines
      /\ store' = ran.store
      /\ session' = ran.session
      /\ flow' = [ran |-> TRUE, req |-> req, env |-> env,
                  calls |-> ran.calls, message |-> ran.message]
      /\ UNCHANGED <<pc, blocks, response_text, parsed, grounding_metadata,
                     extracted, lastOp, procs, acked>>

NextGenerate == \E req \in Requests, env \in Envs, t \in Clock : Generate(req, env, t)

SpecGenerate == InitGenerate /\ [][NextGenerate]_vars

\* ------------------------------------------------- two processes, one log
concIdle == <<pc, blocks, response_text, parsed, grounding_metadata, extracted,
              session, flow, lastOp>>

InitConc ==
  /\ pc = "conc"
  /\ store \in {File(<<Dumps(NewEntry(FormatId(1), "p1"))>>),
                File(<<Dumps(NewEntry(FormatId(1), "p1")),
                       Dumps(NewEntry(FormatId(2), "p1"))>>)}
  /\ procs = [p \in Procs |-> IdleProc]
  /\ acked = [NoAcks EXCEPT !.initial = Len(store.lines)]
  /\ session = NoSession
  /\ flow = NoFlow
  /\ lastOp = Idle
  /\ blocks = <<>>
  /\ response_text = <<>>
  /\ parsed = NoResult
  /\ grounding_metadata = None
  /\ extracted = NoResources

\* log_request by process p: the append of lines 52-53 is one write
ConcLogRequest(p, payload, t) ==
  /\ procs[p].pc = "idle"
  /\ Len(store.lines) < MaxLines
  /\ acked.requests < MaxAppends
  /\ store' = AppendLine(store, Dumps(NewEntry(FormatId(t), payload)))
  /\ acked' = [acked EXCEPT !.requests = @ + 1]
  /\ procs' = [q \in Procs |->
                 IF q # p /\ procs[q].pc = "read"
                 THEN [procs[q] EXCEPT !.missed_appends = @ + 1]
                 ELSE procs[q]]
  /\ UNCHANGED concIdle

\* log_feedback by process p, lines 63-70: read and change in memory
ConcFeedbackRead(p, entry_id, email_index) ==
  LET snap == Snapshot(store, entry_id, email_index, "Hi there")
  IN  /\ procs[p].pc = "idle"
      /\ ~snap.raised
      /\ acked.started < MaxFeedback
      /\ procs' = [procs EXCEPT ![p] =
                     [IdleProc EXCEPT !.pc = "read", !.id = entry_id,
                                      !.email_index = email_index,
                                      !.entries = snap.entries,
                                      !.updated = snap.updated]]
      /\ acked' = [acked EXCEPT !.started = @ + 1]
      /\ UNCHANGED store
      /\ UNCHANGED concIdle

\* log_feedback by process p, lines 72-75: rewrite and return
ConcFeedbackWrite(p) ==
  LET me == procs[p]
      done == <<me.id, me.email_index>>
  IN  /\ me.pc = "read"
      /\ store' = IF ShouldWrite(me.updated)
                  THEN _write_all_entries(StaleEntries(me, store))
                  ELSE store
      /\ acked' = IF me.updated
                  THEN [acked EXCEPT !.feedback = @ \cup {done}]
                  ELSE acked
      /\ procs' = [q \in Procs |->
                     IF q = p THEN IdleProc
                     ELSE IF procs[q].pc = "read" /\ me.updated
                     THEN [procs[q] EXCEPT !.missed_feedback = @ \cup {done}]
                     ELSE procs[q]]
      /\ UNCHANGED concIdle

NextConc ==
  \/ \E p \in Procs, payload \in Payloads, t \in Clock : ConcLogRequest(p, payload, t)
  \/ \E p \in Procs, entry_id \in {FormatId(t) : t \in Clock},
        email_index \in 0..(Slots - 1) : ConcFeedbackRead(p, entry_id, email_index)
  \/ \E p \in Procs : ConcFeedbackWrite(p)

SpecConc == InitConc /\ [][NextConc]_vars

\* ================================================================ claims
AllWellFormed(bs) == \A i \in 1..Len(bs) : bs[i].kind = "block"

FirstThree(rs) == SubSeq(rs, 1, IF Len(rs) < 3 THEN Len(rs) ELSE 3)

\* C1: a text made of exactly 3 well-formed blocks parses to exactly 3
\* records, in block order, record i carrying the trimmed text after the
\* SUBJECT: marker of block i as subject and the trimmed text after the
\* subject line as body.
C1_ThreeBlocksParsed ==
  (pc = "done" /\ Len(blocks) = 3 /\ AllWellFormed(blocks)) =>
    /\ ~parsed.raised
    /\ parsed.emails = [i \in 1..3 |-> [subject |-> Strip(blocks[i].subj),
                                         body |-> Strip(blocks[i].body)]]

\* C2: the parser returns at most 3 records; when more than 3 are found
\* the result is the first 3 found, in order; a text of n well-formed
\* blocks yields min(n, 3) records whose bodies are those of blocks 1..3.
C2_AtMostThreeFirstFound ==
  pc = "done" =>
    LET found == Plains(EmailsFound(response_text))
    IN  /\ Len(parsed.emails) <= 3
        /\ Len(found) > 3 => parsed.emails = <<found[1], found[2], found[3]>>
        /\ Len(found) <= 3 => parsed.emails = found
        /\ AllWellFormed(blocks) =>
             /\ Len(parsed.emails) = (IF Len(blocks) < 3 THEN Len(blocks) ELSE 3)
             /\ \A i \in 1..Len(parsed.emails) :
                  parsed.emails[i].body = Strip(blocks[i].body)

C2_Witness ==
  /\ pc = "done"
  /\ Len(blocks) = 4
  /\ AllWellFormed(blocks)
  /\ blocks[1] # blocks[4]
  /\ Len(parsed.emails) = 3

\* the pieces after the first when the text is split on `Subject:`
C3_Pieces(text) == Tail(Split(text, "s"))

\* the record of a piece: its first line trimmed, the rest trimmed
C3_Record(piece) ==
  LET lines == SplitLine1(piece)
  IN  [subject |-> Strip(lines[1]),
       body |-> IF Len(lines) > 1 THEN Strip(lines[2]) ELSE <<>>]

C3_TrimmedRecord(piece) == C3_Record(Strip(piece))

C3_Records(pieces) == [i \in 1..Len(pieces) |-> C3_Record(pieces[i])]
C3_TrimmedRecords(pieces) == [i \in 1..Len(pieces) |-> C3_TrimmedRecord(pieces[i])]

\* C3 as stated: without `---EMAIL` in the text, the result is, for each of
\* the first 3 pieces after a `Subject:`, the piece's first line trimmed
\* as subject and the rest of the piece trimmed as body.
C3_FallbackFirstLine ==
  (pc = "done" /\ Count(response_text, "E") = 0) =>
    /\ ~parsed.raised
    /\ parsed.emails = FirstThree(C3_Records(C3_Pieces(response_text)))

\* C3 amended: without `---EMAIL` in the text, the result is, for each of
\* the first 3 pieces after a `Subject:`, the first line of the trimmed
\* piece, trimmed, as subject and the rest of the trimmed piece, trimmed,
\* as body.
C3_FallbackTrimmedPiece ==
  (pc = "done" /\ Count(response_text, "E") = 0) =>
    /\ ~parsed.raised
    /\ parsed.emails =
         FirstThree(C3_TrimmedRecords(C3_Pieces(response_text)))

C3_Witness ==
  /\ pc = "done"
  /\ Count(response_text, "E") = 0
  /\ Len(parsed.emails) >= 2
  /\ \E i \in 1..Len(C3_Pieces(response_text)) :
       StartsWith(C3_Pieces(response_text)[i], "n")
  /\ \E i \in 1..Len(parsed.emails) : parsed.emails[i].body # <<>>

\* C4: parsing never ends in an error; the empty text and a text with
\* neither `---EMAIL` nor `Subject:` yield no record, and there are never
\* more records than delimiters.
C4_ParseNeverRaises ==
  pc = "done" =>
    /\ ~parsed.raised
    /\ response_text = <<>> => parsed.emails = <<>>
    /\ (Count(response_text, "E") = 0 /\ Count(response_text, "s") = 0)
         => parsed.emails = <<>>
    /\ Len(parsed.emails) <= Count(response_text, "E") + Count(response_text, "s")

C4_Witness ==
  /\ pc = "done"
  /\ Count(response_text, "E") > 0
  /\ ~parsed.raised
  /\ parsed.emails = <<>>

IsResource(r) == Truthy(r.url) /\ Truthy(r.title)

\* C5: extraction returns the empty sequence for null metadata and, for
\* every metadata shape, returns a sequence of resources without
\* propagating an error, whichever stage fails.
C5_ExtractNeverRaises ==
  pc = "done" =>
    /\ ~extracted.raised
    /\ ~Truthy(grounding_metadata) => extracted.value = <<>>
    /\ \A i \in 1..Len(extracted.value) : IsResource(extracted.value[i])

C5_Witness ==
  /\ pc = "done"
  /\ Truthy(grounding_metadata)
  /\ TryBody(grounding_metadata).raised
  /\ ~extracted.raised
  /\ extracted.value # <<>>

\* what the strategies discovered, in discovery order
Discovered(md) == IF Truthy(md) THEN TryBody(md).resources ELSE <<>>

FirstOccurrences(rs) ==
  LET keep == {i \in 1..Len(rs) : \A j \in 1..(i - 1) : rs[j].url # rs[i].url}
      F[i \in 0..Len(rs)] ==
        IF i = 0 THEN <<>>
        ELSE IF i \in keep THEN Append(F[i - 1], rs[i]) ELSE F[i - 1]
  IN  F[Len(rs)]

\* C6: on every return path the returned sequence has no two resources
\* with the same url, and is the discovered candidates reduced to the first
\* occurrence of each url, in discovery order.
C6_NoDuplicateUrls ==
  pc = "done" =>
    /\ \A i, j \in 1..Len(extracted.value) :
         i < j => extracted.value[i].url # extracted.value[j].url
    /\ extracted.value = FirstOccurrences(Discovered(grounding_metadata))

Last(seq) == seq[Len(seq)]

\* C7: log_feedback(X, k, text) called after log_request returned X
\* succeeds, and the logged entry (the one recent(1) shows) then has slot k
\* equal to text with a timestamp for slot k, its other slots as before.
C7_FeedbackReachesLoggedEntry ==
  [][ (lastOp.op = "log_request" /\ lastOp'.op = "log_feedback"
       /\ lastOp'.id = lastOp.id) =>
        /\ lastOp'.updated
        /\ LET before == Last(_read_all_entries(store).entries)
               after == Last(_read_all_entries(store').entries)
               k == lastOp'.email_index + 1
           IN  /\ after.id = lastOp.id
               /\ after.feedback.emails_actually_sent[k] = lastOp'.text
               /\ after.feedback.stamped[k]
               /\ \A j \in (1..Slots) \ {k} :
                    after.feedback.emails_actually_sent[j]
                      = before.feedback.emails_actually_sent[j] ]_vars

\* the entries of the lines json.loads accepts, in file order
C9_ValidEntries(lines) ==
  LET valid == SelectSeq(lines, LAMBDA l : l.kind = "json")
  IN  [i \in 1..Len(valid) |-> valid[i].val]

\* C8: log_feedback with an id that matches no entry of the store (or with
\* no store file) returns false, writes nothing and leaves the store as it
\* was.
C8_UnknownIdLeavesStore ==
  [][ (lastOp'.op = "log_feedback"
       /\ \A i \in 1..Len(C9_ValidEntries(store.lines)) :
            C9_ValidEntries(store.lines)[i].id # lastOp'.id) =>
        /\ ~lastOp'.raised
        /\ ~lastOp'.updated
        /\ ~lastOp'.wrote
        /\ store' = store ]_vars

C8_Witness ==
  /\ lastOp.op = "log_feedback"
  /\ ~lastOp.updated
  /\ \/ ~store.exists
     \/ \E i \in 1..Len(store.lines) : store.lines[i].kind = "corrupt"

\* C9: no read of the store raises on a line that is not a serialized
\* entry; get_recent_entries with a limit above the number of lines returns
\* exactly the valid entries in file order, and a rewrite by log_feedback
\* holds exactly the entries its read returned.
C9_ReadsSkipCorruptLines ==
  /\ lastOp.op \in {"get_recent_entries", "log_feedback"} => ~lastOp.raised
  /\ (lastOp.op = "get_recent_entries" /\ lastOp.limit > Len(store.lines))
       => lastOp.entries = C9_ValidEntries(store.lines)
  /\ (lastOp.op = "log_feedback" /\ lastOp.wrote)
       => \A i \in 1..Len(store.lines) : store.lines[i].kind = "json"

C9_Witness ==
  /\ lastOp.op = "get_recent_entries"
  /\ lastOp.limit > Len(store.lines)
  /\ Len(store.lines) = 3
  /\ store.lines[1].kind = "json"
  /\ store.lines[2].kind = "corrupt"
  /\ store.lines[3].kind = "json"
  /\ Len(lastOp.entries) = 2

\* C10: get_recent_entries(limit), limit >= 0, returns the last
\* min(limit, n) of the n valid entries, in append order.
C10_RecentReturnsLastMin ==
  lastOp.op = "get_recent_entries" =>
    LET all == C9_ValidEntries(store.lines)
        n == Len(all)
        m == IF lastOp.limit < n THEN lastOp.limit ELSE n
    IN  lastOp.entries = SubSeq(all, n - m + 1, n)

UniqueIds(entries) ==
  \A i, j \in 1..Len(entries) : i # j => entries[i].id # entries[j].id

\* C11: no two entries written by distinct log_request calls carry the same
\* identifier, whatever the clock reads: a log_request call never writes an
\* identifier that an entry of the store already carries.
C11_IdsUnique ==
  [][ (lastOp'.op = "log_request" /\ UniqueIds(C9_ValidEntries(store.lines)))
        => UniqueIds(C9_ValidEntries(store'.lines)) ]_vars

\* the index of the first line holding an entry with the id, 0 if none
C16_FirstLine(lines, entry_id) ==
  LET hits == {i \in 1..Len(lines) :
                 lines[i].kind = "json" /\ lines[i].val.id = entry_id}
  IN  IF hits = {} THEN 0 ELSE MinOf(hits)

\* C16: a log_feedback call that finds its id changes only the feedback
\* sub-record of the first entry with that id; that entry keeps its id and
\* payload, and every other line of the store is kept, same content, same
\* order.
C16_FeedbackFrame ==
  [][ (lastOp'.op = "log_feedback" /\ lastOp'.updated) =>
        LET i == C16_FirstLine(store.lines, lastOp'.id)
        IN  /\ Len(store'.lines) = Len(store.lines)
            /\ \A j \in 1..Len(store.lines) :
                 IF j = i
                 THEN /\ store'.lines[j].kind = "json"
                      /\ store'.lines[j].val.id = store.lines[j].val.id
                      /\ store'.lines[j].val.payload = store.lines[j].val.payload
                 ELSE store'.lines[j] = store.lines[j] ]_vars

\* the segments after the first when the text is split on `---EMAIL`
C17_Segments(text) == Tail(Split(text, "E"))

\* a segment that, trimmed, has a first line and something after it
C17_Usable(segment) == Len(SplitLine1(Strip(segment))) = 2

\* the body the primary strategy gives a usable segment
C17_Body(segment) ==
  LET content == Strip(SplitLine1(Strip(segment))[2])
  IN  IF StartsWith(content, "S")
      THEN (IF Len(SplitLine1(content)) > 1
            THEN Strip(SplitLine1(content)[2]) ELSE <<>>)
      ELSE content

\* C17 as stated: a text with k >= 1 occurrences of `---EMAIL` yields
\* min(k, 3) records, one per segment, in order.
C17_OneRecordPerSegment ==
  (pc = "done" /\ Count(response_text, "E") >= 1) =>
    LET k == Count(response_text, "E")
    IN  /\ Len(parsed.emails) = (IF k < 3 THEN k ELSE 3)
        /\ \A i \in 1..Len(parsed.emails) :
             /\ C17_Usable(C17_Segments(response_text)[i])
             /\ parsed.emails[i].body = C17_Body(C17_Segments(response_text)[i])

\* C17 amended: every segment that, trimmed, has at least two lines yields
\* one record; with j >= 1 such segments the result is min(j, 3) records
\* for the first min(j, 3) of them, in order, and the `Subject:` fallback
\* is not used; a segment of one line yields no record.
C17_OneRecordPerUsableSegment ==
  pc = "done" =>
    LET usable == SelectSeq(C17_Segments(response_text), C17_Usable)
        j == Len(usable)
    IN  j >= 1 =>
          /\ ~parsed.raised
          /\ Len(parsed.emails) = (IF j < 3 THEN j ELSE 3)
          /\ \A i \in 1..Len(parsed.emails) :
               /\ parsed.emails[i].body = C17_Body(usable[i])
               /\ ~StartsWith(Strip(SplitLine1(Strip(usable[i]))[2]), "S")
                    => parsed.emails[i].subject = <<>>

C17_Witness ==
  /\ pc = "done"
  /\ Count(response_text, "E") = 3
  /\ Count(response_text, "s") >= 1
  /\ Len(SelectSeq(C17_Segments(response_text), C17_Usable)) = 2
  /\ Len(parsed.emails) = 2

\* a request that names the prospect and at least one source
C12_Valid(req) ==
  /\ req.person_name # ""
  /\ {req.linkedin_url, req.company_website, req.x_profile_url} # {""}

\* C12: a request with an empty name, or with none of the three sources,
\* is answered with a validation message before any configuration, prompt,
\* gateway, parser or log call is made; store and session stay as they were.
C12_ValidationBeforeCalls ==
  [][ (flow'.ran /\ ~C12_Valid(flow'.req)) =>
        /\ flow'.calls = <<>>
        /\ flow'.message \in {"name_missing", "source_missing"}
        /\ store' = store
        /\ session' = session ]_vars

C12_Witness ==
  /\ flow.ran
  /\ flow.req.person_name # ""
  /\ ~C12_Valid(flow.req)
  /\ flow.env.config_ok
  /\ flow.message = "source_missing"

\* every collaborator would succeed if it were called
C15_AllWilling(env) ==
  env.config_ok /\ env.api_key /\ env.gateway_ok /\ env.log_ok

C15_FullPath ==
  <<"load_config", "build_prompt", "GeminiClient", "generate_emails",
    "parse_email_response", "extract_resources_from_grounding", "log_request">>

\* C15: a valid request whose collaborators all succeed runs prompt
\* construction, the gateway call, parsing, extraction and one log append in
\* that order, stores the emails for presentation and ends in success, not
\* in the error branch.
C15_ValidRequestSucceeds ==
  [][ (flow'.ran /\ C12_Valid(flow'.req) /\ C15_AllWilling(flow'.env)) =>
        /\ flow'.calls = C15_FullPath
        /\ flow'.message = "success"
        /\ Len(store'.lines) = Len(store.lines) + 1
        /\ Last(C9_ValidEntries(store'.lines)).id = session'.log_entry_id
        /\ session'.set
        /\ session'.emails = parse_email_response(flow'.env.text).emails
        /\ session'.resources =
             extract_resources_from_grounding(flow'.env.metadata).value
        /\ session'.token_usage = flow'.env.tokens ]_vars

\* C14: when generation would succeed and only the log append fails, the
\* user still sees the success outcome with the emails, not the generic
\* error that points at the API key.
C14_LogFailureKeepsSuccess ==
  (/\ flow.ran
   /\ C12_Valid(flow.req)
   /\ flow.env.config_ok /\ flow.env.api_key /\ flow.env.gateway_ok
   /\ ~flow.env.log_ok) =>
     /\ flow.message = "success"
     /\ session.set
     /\ session.emails = parse_email_response(flow.env.text).emails
     /\ session.token_usage = flow.env.tokens

\* the slot of feedback f = <<id, email_index>> is filled in entries
C13_Filled(entries, f) ==
  LET i == FirstMatch(entries, f[1])
  IN  i # 0 /\ entries[i].feedback.stamped[f[2] + 1]

\* C13: without locking an update is lost.  When a log_feedback that found
\* its entry rewrites the store, every entry appended since its read is gone
\* (the store holds fewer entries than were acknowledged), and every
\* feedback another process wrote since its read is gone, although all those
\* calls reported success.
C13_StaleRewriteLosesUpdates ==
  [][ \A p \in Procs :
        (procs[p].pc = "read" /\ procs'[p].pc = "idle" /\ procs[p].updated) =>
          /\ procs[p].missed_appends > 0 =>
               /\ Len(C9_ValidEntries(store'.lines)) = Len(procs[p].entries)
               /\ Len(C9_ValidEntries(store'.lines))
                    < acked'.initial + acked'.requests
          /\ \A f \in procs[p].missed_feedback :
               ~C13_Filled(procs[p].entries, f) =>
                 /\ f \in acked'.feedback
                 /\ ~C13_Filled(C9_ValidEntries(store'.lines), f) ]_vars

\* both calls returned, both reported success, the appended entry is missing
C13_Witness ==
  /\ \A p \in Procs : procs[p].pc = "idle"
  /\ acked.requests = 1
  /\ acked.feedback # {}
  /\ Len(C9_ValidEntries(store.lines)) = acked.initial

====
